---- MODULE Spec2Model ----
(***************************************************************************)
(* Model of the static-map registry service of src/src/main.rs: the shared *)
(* in-memory Store (a tokio Mutex around a Vec<SMap>), the list handler    *)
(* list_smaps and the upload handler upload_smap_multipart, each request   *)
(* running as its own task.                                                *)
(***************************************************************************)
EXTENDS Integers, Sequences, FiniteSets, TLC

\* ------------------------------------------------------------------ bounds
NumUploads == 2      \* upload request tasks
NumLists == 1        \* list request tasks
MaxFields == 4       \* multipart fields the request bodies of a run carry in all

\* ------------------------------------------------------------ Option<T>
None == <<>>
Some(x) == <<x>>
Unwrap(o) == o[1]

\* ------------------------------------------------------------------ tasks
Uploaders == 1 .. NumUploads
Listers == (NumUploads + 1) .. (NumUploads + NumLists)
Tasks == Uploaders \cup Listers
NoTask == 0

\* --------------------------------------------------- multipart body fields
\* A field of the request body: its name and attached file name (both
\* optional in a multipart part header), its raw bytes, and whether the body
\* stream delivers those bytes in full.
Field(n, fn, d, c) == [name |-> n, file_name |-> fn, data |-> d, complete |-> c]

TitleA == Field(Some("title"), None, <<65>>, TRUE)
TitleB == Field(Some("title"), None, <<66>>, TRUE)
TitleBadUtf8 == Field(Some("title"), None, <<255>>, TRUE)
FileA == Field(Some("file"), Some("a"), <<1, 2>>, TRUE)
FileA2 == Field(Some("file"), Some("a"), <<3>>, TRUE)
FileB == Field(Some("file"), Some("b"), <<1, 2>>, TRUE)
FileCut == Field(Some("file"), Some("a"), <<1, 2>>, FALSE)
Note == Field(Some("note"), None, <<65>>, TRUE)
NoName == Field(None, None, <<65>>, TRUE)

Fields == {TitleA, TitleB, TitleBadUtf8, FileA, FileA2, FileB, FileCut, Note, NoName}
FileNames == {"a", "b"}

\* Field::text(): the bytes decoded as UTF-8 (the one-byte code points; a
\* byte of 128 or more does not start a valid sequence on its own), Err when
\* the stream breaks off or the bytes are not UTF-8.
IsUtf8(d) == \A i \in 1 .. Len(d) : d[i] < 128
Text(f) == IF f.complete /\ IsUtf8(f.data) THEN Some(f.data) ELSE None

\* Field::bytes(): the raw bytes, Err when the stream breaks off.
Bytes(f) == IF f.complete THEN Some(f.data) ELSE None

\* format!("/tmp/{file_name}")
FilePath(fn) == <<"/tmp/", fn>>
Paths == {FilePath(fn) : fn \in FileNames}

\* The constructor with title and path taken in the wrong order.
SMapNewSwapped(uuid, title, path) == [uuid |-> uuid, title |-> path, path |-> title]

\* SMap::new
SMapNew(uuid, title, path) == [uuid |-> uuid, title |-> title, path |-> path]

\* A copy taken while a record is half way in: one more, unfinished, entry.
CloneTorn(s) == Append(s, SMapNew(0, <<>>, <<>>))

\* Vec::clone under the lock guard (line 130)
Clone(s) == s

\* The record pushed before title and path are checked.
StoreAppendUnchecked(s, u, ti, pa) ==
    Append(s, SMapNew(u, IF ti = None THEN <<>> ELSE Unwrap(ti),
                         IF pa = None THEN <<>> ELSE Unwrap(pa)))

\* The registry overwritten by the new record instead of extended.
StoreReplace(s, u, ti, pa) ==
    IF ti = None \/ pa = None THEN s ELSE <<SMapNew(u, Unwrap(ti), Unwrap(pa))>>

\* What upload_smap_multipart does to the Store: the handler takes no
\* State extractor, so the registry is left as it is.
StoreAfterUpload(s, u, ti, pa) == s

\* A generator that repeats itself.
NewUuidRepeated(n) == 1

\* Uuid::new_v4(): the n-th identifier drawn, a value not drawn before.
NewUuid(n) == n

\* A handle opened for appending: the bytes land after what the file holds.
OverlayAppend(old, new) == old \o new

\* File::write_all on a freshly opened handle: the bytes land at offset 0 of
\* whatever the file holds by then.
Overlay(old, new) == new \o SubSeq(old, Len(new) + 1, Len(old))

\* ------------------------------------------------------------------ state
VARIABLES
    store,      \* Store: the Vec<SMap> behind the mutex
    mutex,      \* the task holding the tokio Mutex, NoTask when free
    fs,         \* the files under /tmp: path -> Option<bytes>
    nextUuid,   \* how many identifiers Uuid::new_v4 has produced, plus one
    pc,         \* where each request task is
    uuid,       \* upload: let uuid (None before line 146)
    title,      \* upload: let mut title
    path,       \* upload: let mut path
    cur,        \* upload: the file field in hand (file_path, bytes)
    smaps,      \* list: let smaps
    resp,       \* the response sent, None when none (yet)
    panicAt,    \* the source line whose unwrap panicked the task, 0 if none
    titles,     \* history: title fields an upload has read
    writes,     \* history: file fields an upload has written in full
    conc,       \* history: the upload overlapped another upload
    created,    \* history: the records returned with 201, in response order
    recv,       \* body history: the fields an upload's body has delivered
    wrote       \* body history: the (path, bytes) an upload has written in full

vars == <<store, mutex, fs, nextUuid, pc, uuid, title, path, cur, smaps, resp,
          panicAt, titles, writes, conc, created, recv, wrote>>

\* The body histories are kept by BodySpec only; Spec leaves them empty.
hist == <<recv, wrote>>

upVars == <<uuid, title, path, cur, titles, writes, conc>>

Init ==
    /\ store = <<>>
    /\ mutex = NoTask
    /\ fs = [p \in Paths |-> None]
    /\ nextUuid = 1
    /\ pc = [t \in Tasks |-> "idle"]
    /\ uuid = [t \in Uploaders |-> None]
    /\ title = [t \in Uploaders |-> None]
    /\ path = [t \in Uploaders |-> None]
    /\ cur = [t \in Uploaders |-> None]
    /\ smaps = [t \in Listers |-> <<>>]
    /\ resp = [t \in Tasks |-> None]
    /\ panicAt = [t \in Tasks |-> 0]
    /\ titles = [t \in Uploaders |-> 0]
    /\ writes = [t \in Uploaders |-> 0]
    /\ conc = [t \in Uploaders |-> FALSE]
    /\ created = <<>>
    /\ recv = [t \in Uploaders |-> <<>>]
    /\ wrote = [t \in Uploaders |-> <<>>]

InFlight(t) == pc[t] \notin {"idle", "done", "panicked"}

\* The fields upload t has taken from its body without panicking on them.
FieldsRead(t) == titles[t] + writes[t] + (IF cur[t] = None THEN 0 ELSE 1)

RECURSIVE SumFieldsRead(_)
SumFieldsRead(S) ==
    IF S = {} THEN 0
    ELSE LET t == CHOOSE x \in S : TRUE
         IN  FieldsRead(t) + SumFieldsRead(S \ {t})

\* An unwrap on None/Err at the given line: the request task unwinds, its
\* locals are dropped and no response is written.
Panic(t, line) ==
    /\ pc' = [pc EXCEPT ![t] = "panicked"]
    /\ panicAt' = [panicAt EXCEPT ![t] = line]
    /\ title' = [title EXCEPT ![t] = None]
    /\ path' = [path EXCEPT ![t] = None]
    /\ cur' = [cur EXCEPT ![t] = None]
    /\ UNCHANGED <<resp, mutex, nextUuid, smaps, uuid, conc, created>>

\* ------------------------------------------------------------ list_smaps
ListStart(l) ==
    /\ pc[l] = "idle"
    /\ pc' = [pc EXCEPT ![l] = "lock"]
    /\ UNCHANGED <<store, mutex, fs, nextUuid, upVars, smaps, resp, panicAt, created>>

\* store.lock().await
ListLock(l) ==
    /\ pc[l] = "lock"
    /\ mutex = NoTask
    /\ mutex' = l
    /\ pc' = [pc EXCEPT ![l] = "locked"]
    /\ UNCHANGED <<store, fs, nextUuid, upVars, smaps, resp, panicAt, created>>

\* The guard bound to a local instead: the lock outlives the statement.
ListCloneKeepGuard(l) ==
    /\ pc[l] = "locked"
    /\ mutex = l
    /\ smaps' = [smaps EXCEPT ![l] = Clone(store)]
    /\ pc' = [pc EXCEPT ![l] = "cloned"]
    /\ UNCHANGED <<store, mutex, fs, nextUuid, upVars, resp, panicAt, created>>

\* .clone(); the guard is a temporary dropped at the end of the statement
ListClone(l) ==
    /\ pc[l] = "locked"
    /\ mutex = l
    /\ smaps' = [smaps EXCEPT ![l] = Clone(store)]
    /\ mutex' = NoTask
    /\ pc' = [pc EXCEPT ![l] = "cloned"]
    /\ UNCHANGED <<store, fs, nextUuid, upVars, resp, panicAt, created>>

\* Json(smaps)
ListReturn(l) ==
    /\ pc[l] = "cloned"
    /\ resp' = [resp EXCEPT ![l] = Some([status |-> 200, body |-> smaps[l]])]
    /\ pc' = [pc EXCEPT ![l] = "done"]
    /\ UNCHANGED <<store, mutex, fs, nextUuid, upVars, smaps, panicAt, created>>

\* ------------------------------------------------- upload_smap_multipart
\* lines 143-146
UploadStart(t) ==
    /\ pc[t] = "idle"
    /\ uuid' = [uuid EXCEPT ![t] = Some(NewUuid(nextUuid))]
    /\ nextUuid' = nextUuid + 1
    /\ title' = [title EXCEPT ![t] = None]
    /\ path' = [path EXCEPT ![t] = None]
    /\ pc' = [pc EXCEPT ![t] = "fields"]
    /\ conc' = [u \in Uploaders |->
                  IF u = t THEN \E v \in Uploaders : InFlight(v)
                  ELSE conc[u] \/ InFlight(u)]
    /\ UNCHANGED <<store, mutex, fs, cur, smaps, resp, panicAt, titles, writes, created>>

\* next_field() returns Err (a malformed part, or the body limit exceeded)
UploadStreamErr(t) ==
    /\ pc[t] = "fields"
    /\ Panic(t, 148)
    /\ UNCHANGED <<store, fs, titles, writes>>

\* next_field() returns Ok(None): the loop ends
UploadStreamEnd(t) ==
    /\ pc[t] = "fields"
    /\ pc' = [pc EXCEPT ![t] = "end"]
    /\ UNCHANGED <<store, mutex, fs, nextUuid, upVars, smaps, resp, panicAt, created>>

\* The loop body with a title field that is dropped when `skip` holds.
UploadFieldSkipping(t, f, skip) ==
    /\ pc[t] = "fields"
    /\ SumFieldsRead(Uploaders) < MaxFields
    /\ UNCHANGED <<store, fs, writes>>
    /\ IF f.name = None
       THEN Panic(t, 149) /\ UNCHANGED titles
       ELSE IF Unwrap(f.name) = "title"
       THEN IF Text(f) = None
            THEN Panic(t, 152) /\ UNCHANGED titles
            ELSE /\ title' = [title EXCEPT ![t] = IF skip THEN @ ELSE Text(f)]
                 /\ titles' = [titles EXCEPT ![t] = @ + 1]
                 /\ UNCHANGED <<mutex, nextUuid, pc, uuid, path, cur, smaps, resp,
                                panicAt, conc, created>>
       ELSE IF f.file_name = None
       THEN Panic(t, 155) /\ UNCHANGED titles
       ELSE IF Bytes(f) = None
       THEN Panic(t, 157) /\ UNCHANGED titles
       ELSE /\ cur' = [cur EXCEPT ![t] =
                         Some([file_path |-> FilePath(Unwrap(f.file_name)),
                               bytes |-> Unwrap(Bytes(f))])]
            /\ pc' = [pc EXCEPT ![t] = "create"]
            /\ UNCHANGED <<mutex, nextUuid, uuid, title, path, smaps, resp, panicAt,
                           titles, conc, created>>

\* The first title kept: `if title.is_none()` around the assignment.
UploadFieldFirstTitle(t, f) == UploadFieldSkipping(t, f, title[t] # None)

\* A title that arrives after the file is dropped.
UploadFieldTitleBeforeFile(t, f) == UploadFieldSkipping(t, f, path[t] # None)

\* next_field() returns Ok(Some(field)): lines 149-157
UploadField(t, f) ==
    /\ pc[t] = "fields"
    /\ SumFieldsRead(Uploaders) < MaxFields
    /\ UNCHANGED <<store, fs, writes>>
    /\ IF f.name = None
       THEN Panic(t, 149) /\ UNCHANGED titles
       ELSE IF Unwrap(f.name) = "title"
       THEN IF Text(f) = None
            THEN Panic(t, 152) /\ UNCHANGED titles
            ELSE /\ title' = [title EXCEPT ![t] = Text(f)]
                 /\ titles' = [titles EXCEPT ![t] = @ + 1]
                 /\ UNCHANGED <<mutex, nextUuid, pc, uuid, path, cur, smaps, resp,
                                panicAt, conc, created>>
       ELSE IF f.file_name = None
       THEN Panic(t, 155) /\ UNCHANGED titles
       ELSE IF Bytes(f) = None
       THEN Panic(t, 157) /\ UNCHANGED titles
       ELSE /\ cur' = [cur EXCEPT ![t] =
                         Some([file_path |-> FilePath(Unwrap(f.file_name)),
                               bytes |-> Unwrap(Bytes(f))])]
            /\ pc' = [pc EXCEPT ![t] = "create"]
            /\ UNCHANGED <<mutex, nextUuid, uuid, title, path, smaps, resp, panicAt,
                           titles, conc, created>>

\* File::create(&file_path): creates or truncates the file, or fails
UploadCreate(t, ok) ==
    /\ pc[t] = "create"
    /\ IF ok
       THEN /\ fs' = [fs EXCEPT ![Unwrap(cur[t]).file_path] = Some(<<>>)]
            /\ pc' = [pc EXCEPT ![t] = "write"]
            /\ UNCHANGED <<store, mutex, nextUuid, upVars, smaps, resp, panicAt, created>>
       ELSE /\ Panic(t, 160)
            /\ UNCHANGED <<store, fs, titles, writes>>

\* file.write_all(&bytes): n bytes reach the file; all of them, or the write
\* fails after a proper prefix. Then path = Some(file_path) (line 164).
UploadWrite(t, n) ==
    /\ pc[t] = "write"
    /\ LET c == Unwrap(cur[t])
           old == Unwrap(fs[c.file_path])
       IN  /\ n \in 0 .. Len(c.bytes)
           /\ fs' = [fs EXCEPT ![c.file_path] = Some(Overlay(old, SubSeq(c.bytes, 1, n)))]
           /\ IF n = Len(c.bytes)
              THEN /\ path' = [path EXCEPT ![t] = Some(c.file_path)]
                   /\ cur' = [cur EXCEPT ![t] = None]
                   /\ pc' = [pc EXCEPT ![t] = "fields"]
                   /\ writes' = [writes EXCEPT ![t] = @ + 1]
                   /\ UNCHANGED <<store, mutex, nextUuid, uuid, title, smaps, resp,
                                  panicAt, titles, conc, created>>
              ELSE /\ Panic(t, 162)
                   /\ UNCHANGED <<store, titles, writes>>

\* lines 168-171: unwrap title and path, build the record, respond 201
UploadEnd(t) ==
    /\ pc[t] = "end"
    /\ store' = StoreAfterUpload(store, Unwrap(uuid[t]), title[t], path[t])
    /\ IF title[t] = None \/ path[t] = None
       THEN /\ Panic(t, 168)
       ELSE /\ LET smap == SMapNew(Unwrap(uuid[t]), Unwrap(title[t]), Unwrap(path[t]))
               IN  /\ resp' = [resp EXCEPT ![t] = Some([status |-> 201, body |-> smap])]
                   /\ created' = Append(created, smap)
            /\ pc' = [pc EXCEPT ![t] = "done"]
            /\ title' = [title EXCEPT ![t] = None]
            /\ path' = [path EXCEPT ![t] = None]
            /\ UNCHANGED <<mutex, nextUuid, uuid, cur, smaps, panicAt, conc>>
    /\ UNCHANGED <<fs, titles, writes>>

\* How many bytes a write_all in progress may get to the file before it ends.
WriteLens(t) == IF cur[t] = None THEN {} ELSE 0 .. Len(Unwrap(cur[t]).bytes)

Next ==
    \/ \E l \in Listers : ListStart(l) /\ UNCHANGED hist
    \/ \E l \in Listers : ListLock(l) /\ UNCHANGED hist
    \/ \E l \in Listers : ListClone(l) /\ UNCHANGED hist
    \/ \E l \in Listers : ListReturn(l) /\ UNCHANGED hist
    \/ \E t \in Uploaders : UploadStart(t) /\ UNCHANGED hist
    \/ \E t \in Uploaders : UploadStreamErr(t) /\ UNCHANGED hist
    \/ \E t \in Uploaders : UploadStreamEnd(t) /\ UNCHANGED hist
    \/ \E t \in Uploaders, f \in Fields : UploadField(t, f) /\ UNCHANGED hist
    \/ \E t \in Uploaders, ok \in BOOLEAN : UploadCreate(t, ok) /\ UNCHANGED hist
    \/ \E t \in Uploaders : \E n \in WriteLens(t) : UploadWrite(t, n) /\ UNCHANGED hist
    \/ \E t \in Uploaders : UploadEnd(t) /\ UNCHANGED hist

Spec == Init /\ [][Next]_vars

\* ---------------------------------------------- the handlers, body by body
\* The upload handler with the fields of each body and the files each request
\* wrote kept on record: the same steps, the uploads interleaved as before.
BodyField(t, f) ==
    /\ UploadField(t, f)
    /\ recv' = [recv EXCEPT ![t] = Append(@, f)]
    /\ UNCHANGED wrote

BodyWrite(t, n) ==
    /\ UploadWrite(t, n)
    /\ wrote' = [wrote EXCEPT ![t] =
                    IF n = Len(Unwrap(cur[t]).bytes)
                    THEN Append(@, <<Unwrap(cur[t]).file_path, Unwrap(cur[t]).bytes>>)
                    ELSE @]
    /\ UNCHANGED recv

BodyNext ==
    \/ \E t \in Uploaders : UploadStart(t) /\ UNCHANGED hist
    \/ \E t \in Uploaders : UploadStreamErr(t) /\ UNCHANGED hist
    \/ \E t \in Uploaders : UploadStreamEnd(t) /\ UNCHANGED hist
    \/ \E t \in Uploaders, f \in Fields : BodyField(t, f)
    \/ \E t \in Uploaders, ok \in BOOLEAN : UploadCreate(t, ok) /\ UNCHANGED hist
    \/ \E t \in Uploaders : \E n \in WriteLens(t) : BodyWrite(t, n)
    \/ \E t \in Uploaders : UploadEnd(t) /\ UNCHANGED hist

BodySpec == Init /\ [][BodyNext]_vars

\* ------------------------------------------------------------- scheduling
\* The runtime polls every task that can run, and the tokio Mutex hands the
\* lock to its waiters in turn: a list request that can step does step.
ListStep(l) == (ListLock(l) \/ ListClone(l) \/ ListReturn(l)) /\ UNCHANGED hist

LiveSpec == Init /\ [][Next]_vars /\ \A l \in Listers : WF_vars(ListStep(l))

\* ------------------------------------------------------------ vocabulary
Range(s) == {s[i] : i \in 1 .. Len(s)}
IsPrefix(a, b) == Len(a) <= Len(b) /\ SubSeq(b, 1, Len(a)) = a
NoDuplicate(s) == \A i, j \in 1 .. Len(s) : i # j => s[i] # s[j]
Responded(t, st) == resp[t] # None /\ Unwrap(resp[t]).status = st
Record(t) == Unwrap(resp[t]).body
Quiet == \A t \in Uploaders : ~InFlight(t)

\* --------------------------------------------------------------- claims

\* C1: every upload that responded 201 (a title and a stored file were both
\* received) has its record in the registry, where a later list finds it.
C1_UploadedIsRegistered ==
    \A t \in Uploaders : Responded(t, 201) => Record(t) \in Range(store)

\* C2: when the body ends with no title field read or no file stored, the
\* request ends with a client-error response (a malformed-upload error
\* value), never with a panic of the request task.
C2_MalformedIsErrorValue ==
    [][\A t \in Uploaders :
          (pc[t] = "end" /\ pc'[t] # "end" /\ (titles[t] = 0 \/ writes[t] = 0))
          => /\ pc'[t] = "done"
             /\ resp'[t] # None
             /\ Unwrap(resp'[t]).status \in 400 .. 499]_vars

\* C3: a step in which no upload completes successfully (so every step of a
\* request that fails: missing title, missing file, field-parsing failure,
\* blob write failure) leaves the registry's record sequence as it was.
C3_FailedUploadLeavesRegistry ==
    [][(\A t \in Uploaders : ~(pc[t] = "end" /\ pc'[t] = "done")) => store' = store]_vars

\* C3 witness: one request failed on its blob write and another ended with a
\* stored file but no title.
C3_Witness ==
    \E t, u \in Uploaders :
        /\ pc[t] = "panicked" /\ panicAt[t] = 162
        /\ pc[u] = "panicked" /\ panicAt[u] = 168 /\ titles[u] = 0 /\ writes[u] > 0

\* C4: every snapshot a list request holds or has returned is a prefix of the
\* registry (which only grows, C8), has no duplicate, and holds only records
\* of uploads that completed.
C4_SnapshotIsPrefix ==
    \A l \in Listers :
        pc[l] \in {"cloned", "done"} =>
            /\ IsPrefix(smaps[l], store)
            /\ NoDuplicate(smaps[l])
            /\ Range(smaps[l]) \subseteq Range(created)
            /\ pc[l] = "done" => Unwrap(resp[l]).body = smaps[l]

\* C4 witness: a list request has returned while one upload had completed and
\* another was in flight.
C4_Witness ==
    \E l \in Listers, t, u \in Uploaders :
        pc[l] = "done" /\ Responded(t, 201) /\ InFlight(u)

\* C5: two uploads that ran concurrently and both responded 201 are both in
\* the registry, with distinct identifiers.
C5_ConcurrentUploadsBothRegistered ==
    \A t, u \in Uploaders :
        (t # u /\ conc[t] /\ conc[u] /\ Responded(t, 201) /\ Responded(u, 201)) =>
            /\ Record(t).uuid # Record(u).uuid
            /\ {Record(t), Record(u)} \subseteq Range(store)

\* C6: the identifiers of the records returned by successful uploads are
\* pairwise distinct, and no two records of the registry share an identifier.
C6_IdsDistinct ==
    /\ \A t, u \in Uploaders :
          (t # u /\ Responded(t, 201) /\ Responded(u, 201)) =>
              Record(t).uuid # Record(u).uuid
    /\ \A i, j \in 1 .. Len(store) : i # j => store[i].uuid # store[j].uuid

\* C6 witness: two uploads that overlapped have both returned their record.
C6_Witness ==
    \E t, u \in Uploaders :
        t # u /\ conc[t] /\ conc[u] /\ Responded(t, 201) /\ Responded(u, 201)

\* C7: a list request that copies the registry while no upload is in flight
\* gets exactly the records of the successful uploads so far, in the order
\* in which they completed.
C7_ListReturnsAppendsInOrder ==
    [][\A l \in Listers :
          (pc[l] = "locked" /\ pc'[l] = "cloned" /\ Quiet) => smaps'[l] = created]_vars

\* C8: every step leaves the registry with its previous record sequence as a
\* prefix: nothing is removed, reordered or changed.
C8_AppendOnly == [][IsPrefix(store, store')]_vars

\* C8 witness: two uploads have completed and a list request has returned.
C8_Witness ==
    /\ Len(created) = 2
    /\ \E l \in Listers : pc[l] = "done"

\* The records a client can see: in the registry, in a snapshot, in a 201.
Visible ==
    Range(store) \cup UNION {Range(smaps[l]) : l \in Listers}
                 \cup {Record(t) : t \in {u \in Uploaders : Responded(u, 201)}}

\* C9: every record in the registry or in a snapshot (or returned by an
\* upload) belongs to a request whose identifier was generated, that read a
\* title and that wrote a file in full; its location names a file that exists.
C9_RecordsComplete ==
    \A r \in Visible :
        /\ \E t \in Uploaders :
              uuid[t] = Some(r.uuid) /\ titles[t] > 0 /\ writes[t] > 0
        /\ r.path \in Paths
        /\ fs[r.path] # None

\* C9 witness: an upload has returned its record after writing its file,
\* while another request ended without a file.
C9_Witness ==
    \E t, u \in Uploaders :
        /\ Responded(t, 201) /\ writes[t] > 0
        /\ pc[u] = "panicked" /\ panicAt[u] = 168 /\ writes[u] = 0

\* C10: when File::create fails or write_all does not write the whole file,
\* the request ends with a server-error response (WriteFailed), the task does
\* not panic, and the registry is unchanged.
C10_WriteFailureIsServerError ==
    [][\A t \in Uploaders :
          (\/ pc[t] = "create" /\ pc'[t] \notin {"create", "write"}
           \/ pc[t] = "write" /\ pc'[t] \notin {"write", "fields"})
          => /\ pc'[t] = "done"
             /\ resp'[t] # None
             /\ Unwrap(resp'[t]).status \in 500 .. 599
             /\ store' = store]_vars

\* The contents a blob holds when a file field was written in full.
WholeFiles == {f.data : f \in {g \in Fields : g.file_name # None /\ g.complete}}

\* C11: a location is held only once the file was written in full, and when
\* write_all fails after the file was created, what is left readable at that
\* path is no partial content: no file, or a file written in full.
C11_NoPartialBlob ==
    [][\A t \in Uploaders :
          /\ path'[t] # None => writes'[t] > 0
          /\ (pc[t] = "write" /\ pc'[t] \notin {"write", "fields"}) =>
                \/ fs'[Unwrap(cur[t]).file_path] = None
                \/ Unwrap(fs'[Unwrap(cur[t]).file_path]) \in WholeFiles]_vars

\* C12: the mutex is held by no upload task at any point of its field
\* reading or file I/O, and by a list task only between its lock() and the
\* end of the clone statement.
C12_NoIoUnderMutex ==
    \A t \in Tasks :
        mutex = t => (t \in Listers /\ pc[t] = "locked")

\* C12 witness: a list request holds the mutex while an upload is in the
\* middle of its file write.
C12_Witness ==
    \E l \in Listers, t \in Uploaders :
        mutex = l /\ pc[l] = "locked" /\ pc[t] = "write"

IsTitleField(f) == f.name = Some("title")
IsFileField(f) == f.name # None /\ ~IsTitleField(f) /\ f.file_name # None
IsOtherField(f) == f.name # None /\ ~IsTitleField(f) /\ f.file_name = None
Max(S) == CHOOSE x \in S : \A y \in S : y <= x
TitleIdx(b) == {i \in 1 .. Len(b) : IsTitleField(b[i])}
FileIdx(b) == {i \in 1 .. Len(b) : IsFileField(b[i])}
LastTitle(b) == b[Max(TitleIdx(b))]
LastFile(b) == b[Max(FileIdx(b))]
Ended(t) == pc[t] \in {"done", "panicked"}
\* A request that did not end on a failure of its surroundings: the body
\* stream (148), File::create (160), write_all (162).
NoOutsideFailure(t) == pc[t] = "panicked" => panicAt[t] \notin {148, 160, 162}

\* C14: a field that is not named title and has no file name is skipped: the
\* request goes on to the next field with its title, path and files as they
\* were.
C14_OtherFieldIgnored ==
    [][\A t \in Uploaders :
          (Len(recv'[t]) > Len(recv[t]) /\ IsOtherField(recv'[t][Len(recv'[t])]))
          => /\ pc'[t] = "fields"
             /\ title'[t] = title[t]
             /\ path'[t] = path[t]
             /\ fs' = fs]_vars

\* C15: a request whose body is [title, file] and one whose body is
\* [file, title], with the same title text and the same file, end the same
\* way: neither fails on its body, and once both have read their fields they
\* hold the same title and the same location and have written the same bytes
\* to the same path; the records they return agree in title and location.
C15_OrderIndependent ==
    \A t, u \in Uploaders :
        (/\ Len(recv[t]) = 2 /\ Len(recv[u]) = 2
         /\ IsTitleField(recv[t][1]) /\ Text(recv[t][1]) # None
         /\ IsFileField(recv[t][2]) /\ Bytes(recv[t][2]) # None
         /\ recv[u] = <<recv[t][2], recv[t][1]>>)
        => /\ NoOutsideFailure(t) => pc[t] # "panicked"
           /\ NoOutsideFailure(u) => pc[u] # "panicked"
           /\ (pc[t] = "end" /\ pc[u] = "end") =>
                  (title[t] = title[u] /\ path[t] = path[u] /\ wrote[t] = wrote[u])
           /\ (Responded(t, 201) /\ Responded(u, 201)) =>
                  /\ Record(t).title = Record(u).title
                  /\ Record(t).path = Record(u).path
                  /\ wrote[t] = wrote[u]

\* C15 witness: both orders of one title and one file have been answered.
C15_Witness ==
    \E t, u \in Uploaders :
        /\ recv[t] = <<TitleA, FileA>> /\ recv[u] = <<FileA, TitleA>>
        /\ Responded(t, 201) /\ Responded(u, 201)

\* C16: the title an upload holds, and the title of the record it returns,
\* is the text of the last title field its body delivered.
C16_LastTitleWins ==
    \A t \in Uploaders :
        /\ (pc[t] \in {"fields", "create", "write", "end"} /\ TitleIdx(recv[t]) # {}) =>
              title[t] = Text(LastTitle(recv[t]))
        /\ Responded(t, 201) =>
              /\ TitleIdx(recv[t]) # {}
              /\ Some(Record(t).title) = Text(LastTitle(recv[t]))

\* C16 witness: a record returned for a body with two different titles around
\* its file.
C16_Witness ==
    \E t \in Uploaders : Responded(t, 201) /\ recv[t] = <<TitleA, FileA, TitleB>>

\* C17: an upload that responded 201 has written exactly one file and its
\* record is in the registry exactly once.
C17_OneWriteOneAppend ==
    \A t \in Uploaders :
        Responded(t, 201) =>
            /\ writes[t] = 1
            /\ Cardinality({i \in 1 .. Len(store) : store[i] = Record(t)}) = 1

\* C18: an upload that ends without panicking responds 201 with a record
\* whose id is the identifier drawn at the start of the request, whose title
\* is a title its body supplied and whose location is the path of a file the
\* request wrote, which exists.
C18_CreatedRecord ==
    \A t \in Uploaders :
        pc[t] = "done" =>
            /\ Responded(t, 201)
            /\ Record(t).uuid = Unwrap(uuid[t])
            /\ \E i \in TitleIdx(recv[t]) : Text(recv[t][i]) = Some(Record(t).title)
            /\ Record(t).path \in Paths
            /\ \E i \in 1 .. Len(wrote[t]) : wrote[t][i][1] = Record(t).path
            /\ fs[Record(t).path] # None

\* C18 witness: the upload of title "A" and file "a" has been answered.
C18_Witness ==
    \E t \in Uploaders : pc[t] = "done" /\ recv[t] = <<TitleA, FileA>>

\* C19: a step of a list request leaves the registry as it was; the copy it
\* takes is the registry as it is while the request holds the mutex; the
\* response carries that copy and the mutex is free when it is sent.
C19_ListReadsOnly ==
    [][\A l \in Listers :
          pc'[l] # pc[l] =>
              /\ store' = store
              /\ pc[l] = "locked" => (mutex = l /\ smaps'[l] = store /\ mutex' = NoTask)
              /\ pc'[l] = "done" => (mutex' # l /\ Unwrap(resp'[l]).body = smaps[l])]_vars

\* C19 witness: a list request has returned after an upload completed, with
\* nothing in flight.
C19_Witness ==
    /\ Quiet /\ Len(created) = 1 /\ mutex = NoTask
    /\ \E l \in Listers : pc[l] = "done"

\* Some other request has written path p in full.
OtherWrote(t, p) ==
    \E u \in Uploaders \ {t} : \E i \in 1 .. Len(wrote[u]) : wrote[u][i][1] = p

\* The location of a returned record is "/tmp/" and the file name of the last
\* file-bearing field of the body.
LocationFromName ==
    \A t \in Uploaders :
        Responded(t, 201) =>
            /\ FileIdx(recv[t]) # {}
            /\ Record(t).path = FilePath(Unwrap(LastFile(recv[t]).file_name))

====
